---- MODULE Spec2Model ----
(***************************************************************************)
(* A model of lunchctl: the launch agent descriptor (src/src/agent.rs),    *)
(* its plist store under ~/Library/LaunchAgents, the derive_builder        *)
(* builder, and the launchctl controller (src/src/control.rs, os.rs).      *)
(*                                                                         *)
(* Strings are TLA+ strings; a plist file is the sequence of XML events    *)
(* the plist writer emits, one element per write to the file.              *)
(***************************************************************************)
EXTENDS Naturals, Sequences, FiniteSets, TLC

\* ---------------------------------------------------------------- bounds

\* Longest ProgramArguments vector a descriptor of the model holds.
MaxArgs == 2

\* ------------------------------------------------------------- constants

DEV_NULL == "/dev/null"

Labels == {"test", "co.example.test"}

ArgStrings == {"/bin/sleep", "1"}

ArgLists == UNION {[1..n -> ArgStrings] : n \in 0..MaxArgs}

PathValues == {DEV_NULL, "/tmp/agent.log"}

\* enum ProcessType
ProcessType == {"Background", "Standard", "Adaptive", "Interactive"}

\* impl Default for ProcessType
ProcessType_default == "Standard"

\* struct LaunchAgent: every value of the type, within the bounds
LaunchAgent ==
    [label : Labels,
     program_arguments : ArgLists,
     standard_out_path : PathValues,
     standard_error_path : PathValues,
     keep_alive : BOOLEAN,
     run_at_load : BOOLEAN,
     process_type : ProcessType]

\* LaunchAgent::new
new(label) ==
    [label |-> label,
     program_arguments |-> <<>>,
     standard_out_path |-> DEV_NULL,
     standard_error_path |-> DEV_NULL,
     keep_alive |-> FALSE,
     run_at_load |-> FALSE,
     process_type |-> ProcessType_default]

\* ------------------------------------------------------------- variables

VARIABLES
    homeVar,     \* the HOME environment variable: [present, value]
    uid,         \* libc::geteuid()
    dirExists,   \* whether <home>/Library/LaunchAgents exists
    agents,      \* the in-memory descriptors the program holds, by handle
    fs,          \* the descriptor files: path -> sequence of XML events
    pc,          \* per handle: where a thread using that descriptor stands
    offset,      \* per handle: the file offset of its open File
    finished,    \* handles whose write() returned, in order of return
    result,      \* what the last operation returned
    lastStore,   \* per label: the most recent successful write/remove
    jobs,        \* the service manager's job table: label -> state
    builder,     \* LaunchAgentBuilder: each field None or Some
    addedArgs    \* the arguments handed to LaunchAgentBuilder::arg, in order

vars == <<homeVar, uid, dirExists, agents, fs, pc, offset, finished, result,
          lastStore, jobs, builder, addedArgs>>

Handles == {1, 2}

\* ------------------------------------------------------------ path_for

IsAbsolute(s) == Len(s) > 0 /\ SubSeq(s, 1, 1) = "/"

EndsWithSep(s) == Len(s) > 0 /\ SubSeq(s, Len(s), Len(s)) = "/"

\* PathBuf::join as path_for uses it: an absolute component replaces the
\* base, otherwise it is appended after one separator.
PathJoin(base, comp) ==
    IF IsAbsolute(comp) THEN comp
    ELSE IF base = "" \/ EndsWithSep(base) THEN base \o comp
    ELSE base \o "/" \o comp

\* std::env::var("HOME").unwrap(): a panic when the variable is not present
HomePanics == ~homeVar.present

path_for_shared(label) ==
    PathJoin(PathJoin("/Users/Shared", "LaunchAgents"), "agent.plist")

\* LaunchAgent::path_for, defined when HOME is present
path_for(label) ==
    PathJoin(PathJoin(PathJoin(homeVar.value, "Library"), "LaunchAgents"),
             label \o ".plist")

\* LaunchAgent::path
path(agent) == path_for(agent.label)

\* ------------------------------------------------------- serialization

Tok(tag, text) == [tag |-> tag, text |-> text]

\* #[serde(rename_all = "PascalCase")] on the fields of LaunchAgent
PascalCase(field) ==
    CASE field = "label" -> "Label"
      [] field = "program_arguments" -> "ProgramArguments"
      [] field = "standard_out_path" -> "StandardOutPath"
      [] field = "standard_error_path" -> "StandardErrorPath"
      [] field = "keep_alive" -> "KeepAlive"
      [] field = "run_at_load" -> "RunAtLoad"
      [] field = "process_type" -> "ProcessType"

ProcessType_serialize_swapped(t) ==
    CASE t = "Background" -> "background"
      [] t = "Standard" -> "standard"
      [] t = "Adaptive" -> "interactive"
      [] t = "Interactive" -> "adaptive"

\* impl Serialize for ProcessType
ProcessType_serialize(t) ==
    CASE t = "Background" -> "background"
      [] t = "Standard" -> "standard"
      [] t = "Adaptive" -> "adaptive"
      [] t = "Interactive" -> "interactive"

ProcessType_deserialize_lenient(s) ==
    CASE s = "background" -> [ok |-> TRUE, val |-> "Background"]
      [] s = "standard" -> [ok |-> TRUE, val |-> "Standard"]
      [] s = "adaptive" -> [ok |-> TRUE, val |-> "Adaptive"]
      [] s = "interactive" -> [ok |-> TRUE, val |-> "Interactive"]
      [] OTHER -> [ok |-> TRUE, val |-> ProcessType_default]

\* impl Deserialize for ProcessType
ProcessType_deserialize(s) ==
    CASE s = "background" -> [ok |-> TRUE, val |-> "Background"]
      [] s = "standard" -> [ok |-> TRUE, val |-> "Standard"]
      [] s = "adaptive" -> [ok |-> TRUE, val |-> "Adaptive"]
      [] s = "interactive" -> [ok |-> TRUE, val |-> "Interactive"]
      [] OTHER -> [ok |-> FALSE, err |-> "invalid process type"]

StringEvents(key, s) == <<Tok("key", key), Tok("string", s)>>

BoolEvents(key, b) == <<Tok("key", key), Tok(IF b THEN "true" ELSE "false", "")>>

ArrayEvents(key, strings) ==
    <<Tok("key", key), Tok("array", "")>>
    \o [i \in 1..Len(strings) |-> Tok("string", strings[i])]
    \o <<Tok("/array", "")>>

\* #[derive(Serialize)] for LaunchAgent through plist::to_writer_xml: the
\* fields in declaration order, each under its PascalCase key.
Serialize(agent) ==
    <<Tok("dict", "")>>
    \o StringEvents(PascalCase("label"), agent.label)
    \o ArrayEvents(PascalCase("program_arguments"), agent.program_arguments)
    \o StringEvents(PascalCase("standard_out_path"), agent.standard_out_path)
    \o StringEvents(PascalCase("standard_error_path"), agent.standard_error_path)
    \o BoolEvents(PascalCase("keep_alive"), agent.keep_alive)
    \o BoolEvents(PascalCase("run_at_load"), agent.run_at_load)
    \o StringEvents(PascalCase("process_type"),
                    ProcessType_serialize(agent.process_type))
    \o <<Tok("/dict", "")>>

FieldNames ==
    {"label", "program_arguments", "standard_out_path", "standard_error_path",
     "keep_alive", "run_at_load", "process_type"}

Keys == {PascalCase(f) : f \in FieldNames}

ParseFail == [ok |-> FALSE]

RECURSIVE ParseArray(_, _, _)
\* the <string> elements from event i up to the closing </array>
ParseArray(events, i, acc) ==
    IF i > Len(events) THEN ParseFail
    ELSE IF events[i].tag = "/array"
         THEN [ok |-> TRUE, kind |-> "array", val |-> acc, next |-> i + 1]
    ELSE IF events[i].tag = "string"
         THEN ParseArray(events, i + 1, Append(acc, events[i].text))
    ELSE ParseFail

\* one plist value starting at event i
ParseValue(events, i) ==
    IF i > Len(events) THEN ParseFail
    ELSE CASE events[i].tag = "string" ->
                [ok |-> TRUE, kind |-> "string", val |-> events[i].text, next |-> i + 1]
           [] events[i].tag = "true" ->
                [ok |-> TRUE, kind |-> "bool", val |-> TRUE, next |-> i + 1]
           [] events[i].tag = "false" ->
                [ok |-> TRUE, kind |-> "bool", val |-> FALSE, next |-> i + 1]
           [] events[i].tag = "array" -> ParseArray(events, i + 1, <<>>)
           [] OTHER -> ParseFail

RECURSIVE ParseDict(_, _, _)
\* the key/value pairs from event i up to the closing </dict>: keys of the
\* struct are collected (twice the same key is an error), others are skipped
ParseDict(events, i, fields) ==
    IF i > Len(events) THEN ParseFail
    ELSE IF events[i].tag = "/dict"
         THEN IF i = Len(events) THEN [ok |-> TRUE, fields |-> fields] ELSE ParseFail
    ELSE IF events[i].tag # "key" THEN ParseFail
    ELSE LET key == events[i].text
             v == ParseValue(events, i + 1)
         IN IF ~v.ok THEN ParseFail
            ELSE IF key \notin Keys THEN ParseDict(events, v.next, fields)
            ELSE IF key \in DOMAIN fields THEN ParseFail
            ELSE ParseDict(events, v.next,
                           [k \in DOMAIN fields \cup {key} |->
                               IF k = key THEN [kind |-> v.kind, val |-> v.val]
                               ELSE fields[k]])

FieldKind(field) ==
    CASE field = "program_arguments" -> "array"
      [] field \in {"keep_alive", "run_at_load"} -> "bool"
      [] OTHER -> "string"

PListError == [ok |-> FALSE, err |-> "PListError"]

\* #[derive(Deserialize)] for LaunchAgent through plist::from_file: every
\* field must be present with its type, and the ProcessType token must parse
Deserialize(events) ==
    IF Len(events) = 0 \/ events[1].tag # "dict" THEN PListError
    ELSE LET d == ParseDict(events, 2, <<>>)
         IN IF ~d.ok THEN PListError
            ELSE IF \E f \in FieldNames :
                        \/ PascalCase(f) \notin DOMAIN d.fields
                        \/ d.fields[PascalCase(f)].kind # FieldKind(f)
                 THEN PListError
            ELSE LET get(f) == d.fields[PascalCase(f)].val
                     pt == ProcessType_deserialize(get("process_type"))
                 IN IF ~pt.ok THEN PListError
                    ELSE [ok |-> TRUE,
                          val |-> [label |-> get("label"),
                                   program_arguments |-> get("program_arguments"),
                                   standard_out_path |-> get("standard_out_path"),
                                   standard_error_path |-> get("standard_error_path"),
                                   keep_alive |-> get("keep_alive"),
                                   run_at_load |-> get("run_at_load"),
                                   process_type |-> pt.val]]

\* ---------------------------------------------------------- filesystem

\* a byte range no write has filled
Hole == Tok("hole", "")

\* File::create: the file exists afterwards and is empty
FileCreate(files, p) ==
    [q \in DOMAIN files \cup {p} |-> IF q = p THEN <<>> ELSE files[q]]

\* one write of an open File at its own offset; a write past the end leaves a
\* hole in between
WriteAt(content, off, event) ==
    [i \in 1..(IF off + 1 > Len(content) THEN off + 1 ELSE Len(content)) |->
        IF i = off + 1 THEN event
        ELSE IF i <= Len(content) THEN content[i]
        ELSE Hole]

RECURSIVE WriteAll(_, _, _)
\* the events written one after the other from offset off on
WriteAll(content, off, events) ==
    IF events = <<>> THEN content
    ELSE WriteAll(WriteAt(content, off, Head(events)), off + 1, Tail(events))

\* std::fs::remove_file
FileRemove(files, p) == [q \in DOMAIN files \ {p} |-> files[q]]

\* ------------------------------------------------------------- results

NoResult == [op |-> "none", status |-> "none"]

Ok(op, label, val) == [op |-> op, label |-> label, status |-> "ok", val |-> val]

Err(op, label, err) == [op |-> op, label |-> label, status |-> "err", err |-> err]

Panicked(op, label) == [op |-> op, label |-> label, status |-> "panic"]

Alive == \A h \in Handles : pc[h] = "idle"

\* a panic unwinds the calling thread: nothing else of the program runs
Abort(op, label) ==
    /\ result' = Panicked(op, label)
    /\ pc' = [h \in Handles |-> "panicked"]
    /\ UNCHANGED <<homeVar, uid, dirExists, agents, fs, offset, finished,
                   lastStore, jobs, builder, addedArgs>>

\* --------------------------------------------------------------- store

\* LaunchAgent::exists, defined when HOME is present
exists(label) == path_for(label) \in DOMAIN fs

\* LaunchAgent::from_file, defined when HOME is present
from_file(label) ==
    IF path_for(label) \notin DOMAIN fs THEN PListError
    ELSE Deserialize(fs[path_for(label)])

Exists(label) ==
    /\ Alive
    /\ IF HomePanics THEN Abort("exists", label)
       ELSE /\ result' = Ok("exists", label, exists(label))
            /\ UNCHANGED <<homeVar, uid, dirExists, agents, fs, pc, offset,
                           finished, lastStore, jobs, builder, addedArgs>>

FromFile(label) ==
    /\ Alive
    /\ IF HomePanics THEN Abort("from_file", label)
       ELSE /\ result' = (LET r == from_file(label)
                          IN IF r.ok THEN Ok("from_file", label, r.val)
                             ELSE Err("from_file", label, r.err))
            /\ UNCHANGED <<homeVar, uid, dirExists, agents, fs, pc, offset,
                           finished, lastStore, jobs, builder, addedArgs>>

\* LaunchAgent::write, the whole call
Write(h) ==
    LET agent == agents[h]
        label == agent.label
    IN
    /\ Alive
    /\ IF HomePanics THEN Abort("write", label)
       ELSE IF ~dirExists
       THEN /\ result' = Err("write", label, "WriteError")
            /\ UNCHANGED <<homeVar, uid, dirExists, agents, fs, pc, offset,
                           finished, lastStore, jobs, builder, addedArgs>>
       ELSE /\ fs' = [FileCreate(fs, path(agent)) EXCEPT
                        ![path(agent)] = WriteAll(<<>>, 0, Serialize(agent))]
            /\ result' = Ok("write", label, TRUE)
            /\ lastStore' = [lastStore EXCEPT
                               ![label] = [op |-> "write", agent |-> agent]]
            /\ UNCHANGED <<homeVar, uid, dirExists, agents, pc, offset,
                           finished, jobs, builder, addedArgs>>

\* LaunchAgent::remove
Remove(h) ==
    LET agent == agents[h]
        label == agent.label
    IN
    /\ Alive
    /\ IF HomePanics THEN Abort("remove", label)
       ELSE IF path(agent) \notin DOMAIN fs
       THEN /\ result' = Err("remove", label, "WriteError")
            /\ UNCHANGED <<homeVar, uid, dirExists, agents, fs, pc, offset,
                           finished, lastStore, jobs, builder, addedArgs>>
       ELSE /\ fs' = FileRemove(fs, path(agent))
            /\ result' = Ok("remove", label, TRUE)
            /\ lastStore' = [lastStore EXCEPT ![label] = [op |-> "remove"]]
            /\ UNCHANGED <<homeVar, uid, dirExists, agents, pc, offset,
                           finished, jobs, builder, addedArgs>>

\* ------------------------------------------------ initial values, shared

NoHome == [present |-> FALSE, value |-> ""]

Home == [present |-> TRUE, value |-> "/Users/x"]

NoFiles == <<>>

\* LaunchAgentBuilder::default(): every field None
EmptyBuilder ==
    [label |-> <<>>, program_arguments |-> <<>>, standard_out_path |-> <<>>,
     standard_error_path |-> <<>>, keep_alive |-> <<>>, run_at_load |-> <<>>,
     process_type |-> <<>>]

Quiet ==
    /\ pc = [h \in Handles |-> "idle"]
    /\ offset = [h \in Handles |-> 0]
    /\ finished = <<>>
    /\ result = NoResult
    /\ lastStore = [l \in Labels |-> [op |-> "none"]]
    /\ jobs = [l \in Labels |-> "Unregistered"]
    /\ builder = EmptyBuilder
    /\ addedArgs = <<>>

\* ------------------------------------------- the descriptor store, alone

Init ==
    /\ homeVar \in {NoHome, Home}
    /\ uid = 501
    /\ dirExists \in BOOLEAN
    /\ \E a \in LaunchAgent : agents = <<a, new("test")>>
    /\ fs = NoFiles
    /\ Quiet

Next ==
    \/ \E h \in Handles : Write(h)
    \/ \E h \in Handles : Remove(h)
    \/ \E l \in Labels : Exists(l)
    \/ \E l \in Labels : FromFile(l)

Spec == Init /\ [][Next]_vars

\* ----------------------------------------------------- claims, the store

\* C1: exists(label) is true exactly when the most recent successful store
\* operation on the label was a write: true after write, false after remove,
\* false for a label never written; and that is what a call of exists returns.
C1_ExistsIffLastStoreWasWrite ==
    homeVar.present =>
        /\ \A l \in Labels : exists(l) <=> (lastStore[l].op = "write")
        /\ (result.op = "exists" /\ result.status = "ok") =>
               (result.val <=> (lastStore[result.label].op = "write"))

\* exists has answered false for a label whose file was written and removed
C1_Witness ==
    /\ result.op = "exists"
    /\ result.status = "ok"
    /\ result.val = FALSE
    /\ lastStore[result.label].op = "remove"

\* C2: a descriptor serialized and deserialized is the descriptor again, all
\* seven fields, and from_file after write returns the descriptor written.
C2_RoundTrip ==
    /\ \A h \in Handles :
           Deserialize(Serialize(agents[h])) = [ok |-> TRUE, val |-> agents[h]]
    /\ (result.op = "from_file" /\ lastStore[result.label].op = "write") =>
           /\ result.status = "ok"
           /\ result.val = lastStore[result.label].agent

\* a descriptor away from every default has been written and read back
C2_Witness ==
    /\ result.op = "from_file"
    /\ result.status = "ok"
    /\ lastStore[result.label].op = "write"
    /\ result.val.process_type = "Interactive"
    /\ Len(result.val.program_arguments) = 2
    /\ result.val.program_arguments[1] # result.val.program_arguments[2]
    /\ result.val.keep_alive
    /\ result.val.standard_out_path # DEV_NULL

\* C6: with HOME unset every store operation returns an EnvironmentError to
\* its caller (and never aborts).
C6_EnvironmentErrorIsReturned ==
    (~homeVar.present /\ result.op \in {"exists", "from_file", "write", "remove"}) =>
        /\ result.status = "err"
        /\ result.err = "EnvironmentError"

\* ------------------------------- reading a file another tool has written

\* strings a plist may carry under the ProcessType key
ProcessTypeTokens ==
    {"background", "standard", "adaptive", "interactive",
     "Standard", "daemon", ""}

\* a descriptor file with the given string under its ProcessType key
ForeignPlist(agent, token) ==
    [Serialize(agent) EXCEPT ![Len(Serialize(agent)) - 1] = Tok("string", token)]

InitRead ==
    /\ homeVar = Home
    /\ uid = 501
    /\ dirExists = TRUE
    /\ \E a \in LaunchAgent : agents = <<a, new("test")>>
    /\ \E token \in ProcessTypeTokens :
           fs = [p \in {path(agents[1])} |-> ForeignPlist(agents[1], token)]
    /\ Quiet

NextRead ==
    \/ \E l \in Labels : FromFile(l)
    \/ \E l \in Labels : Exists(l)

SpecRead == InitRead /\ [][NextRead]_vars

\* the string under the ProcessType key of a descriptor file
ProcessTypeToken(events) ==
    events[(CHOOSE i \in 1..Len(events) : events[i] = Tok("key", "ProcessType")) + 1].text

\* C7: from_file on a file whose ProcessType string is none of standard,
\* background, adaptive, interactive fails with the plist (format) error and
\* returns no descriptor.
C7_UnknownProcessTypeIsAnError ==
    (/\ result.op = "from_file"
     /\ path_for(result.label) \in DOMAIN fs
     /\ ProcessTypeToken(fs[path_for(result.label)]) \notin
            {"standard", "background", "adaptive", "interactive"}) =>
        /\ result.status = "err"
        /\ result.err = "PListError"

\* a file whose token is the capitalised "Standard" has been read and refused
C7_Witness ==
    /\ result.op = "from_file"
    /\ result.status = "err"
    /\ path_for(result.label) \in DOMAIN fs
    /\ ProcessTypeToken(fs[path_for(result.label)]) = "Standard"

\* ---------------------------------------------------------- controller

\* Longest status text, in lines, the print command answers with.
MaxLines == 2

\* lines of `launchctl print` output
Lines ==
    {"asid = 100003", "state = running", "job state = running",
     "state = waiting", "state = runnin"}

\* the lines among them that hold the text "state = running"
LinesWithMarker == {"state = running", "job state = running"}

LineLists == UNION {[1..n -> Lines] : n \in 0..MaxLines}

RECURSIVE JoinLines(_)
\* the lines of a text, each ended by a line feed
JoinLines(ls) ==
    IF ls = <<>> THEN "" ELSE Head(ls) \o "\n" \o JoinLines(Tail(ls))

\* str::contains
Contains(hay, needle) ==
    \E i \in 0..Len(hay) :
        /\ i + Len(needle) <= Len(hay)
        /\ SubSeq(hay, i + 1, i + Len(needle)) = needle

\* os::get_user_id
get_user_id == uid

\* LaunchAgent::format_command
format_command(agent, command) ==
    IF command = "" THEN ""
    ELSE "launchctl " \o command \o " gui/" \o ToString(get_user_id)
         \o " '" \o path(agent) \o "'"

\* LaunchAgent::format_bootstrap_command
format_bootstrap_command(agent) == format_command(agent, "bootstrap")

format_boot_out_command_unload(agent) == format_command(agent, "unload")

\* LaunchAgent::format_boot_out_command
format_boot_out_command(agent) == format_command(agent, "bootout")

\* LaunchAgent::format_print_command
format_print_command(agent) ==
    "launchctl print gui/" \o ToString(get_user_id) \o "/" \o agent.label

check_is_running_at_start(output) ==
    /\ Len("state = running") <= Len(output)
    /\ SubSeq(output, 1, Len("state = running")) = "state = running"

\* LaunchAgent::check_is_running
check_is_running(output) == Contains(output, "state = running")

\* Option<i32>
None == <<>>

Some(x) == <<x>>

unwrap_or(opt, default) == IF opt = None THEN default ELSE opt[1]

\* What the service manager does with a launchctl command, and what the
\* command's process comes to: the job table afterwards, the exit code and
\* the lines printed. bootstrap registers the job of the file at the path,
\* running if its RunAtLoad is set; bootout unregisters it; print reports on
\* a registered job and changes nothing.
Launchd(kind, agent) ==
    LET l == agent.label
        loaded == IF path(agent) \in DOMAIN fs
                  THEN Deserialize(fs[path(agent)]) ELSE PListError
    IN CASE kind = "bootstrap" ->
              IF loaded.ok /\ jobs[loaded.val.label] = "Unregistered"
              THEN {[code |-> 0, lines |-> <<>>,
                     jobs |-> [jobs EXCEPT ![loaded.val.label] =
                                 IF loaded.val.run_at_load THEN "Running"
                                 ELSE "Stopped"]]}
              ELSE {[code |-> 5, lines |-> <<>>, jobs |-> jobs]}
         [] kind = "bootout" ->
              IF loaded.ok /\ jobs[loaded.val.label] # "Unregistered"
              THEN {[code |-> 0, lines |-> <<>>,
                     jobs |-> [jobs EXCEPT ![loaded.val.label] = "Unregistered"]]}
              ELSE {[code |-> 3, lines |-> <<>>, jobs |-> jobs]}
         [] kind = "print" ->
              IF jobs[l] # "Unregistered"
              THEN {[code |-> 0, lines |-> ls, jobs |-> jobs] : ls \in LineLists}
              ELSE {[code |-> 113, lines |-> <<>>, jobs |-> jobs]}

\* errno values of a failed spawn of sh
SpawnErrors == {None, Some(2)}

\* Command::new("sh").arg("-c").arg(command).output(): the spawn fails, or
\* the child runs to its exit status with its standard output captured
Outputs(kind, agent) ==
    {[spawned |-> FALSE, os_error |-> e, code |-> 0, lines |-> <<>>, jobs |-> jobs] :
        e \in SpawnErrors}
    \cup {[spawned |-> TRUE, os_error |-> None, code |-> o.code, lines |-> o.lines,
           jobs |-> o.jobs] : o \in Launchd(kind, agent)}

\* os::run_shell, given what output() came to
run_shell(output) ==
    IF ~output.spawned
    THEN [ok |-> FALSE, code |-> unwrap_or(output.os_error, 1), output |-> "spawn failed"]
    ELSE [ok |-> TRUE, val |-> JoinLines(output.lines)]

\* the result of a controller operation, with the command it ran and what
\* running it came to
Controlled(op, agent, cmd, output, r) ==
    IF r.ok
    THEN [op |-> op, label |-> agent.label, status |-> "ok", val |-> r.val,
          cmd |-> cmd, output |-> output]
    ELSE [op |-> op, label |-> agent.label, status |-> "err",
          err |-> "CommandFailed", code |-> r.code, text |-> r.output,
          cmd |-> cmd, output |-> output]

\* .map(|_| ())
Unit(r) == IF r.ok THEN [ok |-> TRUE, val |-> <<>>] ELSE r

\* impl LaunchControllable for LaunchAgent: bootstrap
Bootstrap(h) ==
    LET agent == agents[h] IN
    /\ Alive
    /\ IF HomePanics THEN Abort("bootstrap", agent.label)
       ELSE \E output \in Outputs("bootstrap", agent) :
              /\ result' = Controlled("bootstrap", agent,
                                      format_bootstrap_command(agent), output,
                                      Unit(run_shell(output)))
              /\ jobs' = output.jobs
              /\ UNCHANGED <<homeVar, uid, dirExists, agents, fs, pc, offset,
                             finished, lastStore, builder, addedArgs>>

\* impl LaunchControllable for LaunchAgent: boot_out
BootOut(h) ==
    LET agent == agents[h] IN
    /\ Alive
    /\ IF HomePanics THEN Abort("boot_out", agent.label)
       ELSE \E output \in Outputs("bootout", agent) :
              /\ result' = Controlled("boot_out", agent,
                                      format_boot_out_command(agent), output,
                                      Unit(run_shell(output)))
              /\ jobs' = output.jobs
              /\ UNCHANGED <<homeVar, uid, dirExists, agents, fs, pc, offset,
                             finished, lastStore, builder, addedArgs>>

\* impl LaunchControllable for LaunchAgent: is_running
IsRunning(h) ==
    LET agent == agents[h] IN
    /\ Alive
    /\ \E output \in Outputs("print", agent) :
         LET r == run_shell(output) IN
         /\ result' = Controlled("is_running", agent,
                                 format_print_command(agent), output,
                                 IF r.ok
                                 THEN [ok |-> TRUE, val |-> check_is_running(r.val)]
                                 ELSE r)
         /\ jobs' = output.jobs
         /\ UNCHANGED <<homeVar, uid, dirExists, agents, fs, pc, offset,
                        finished, lastStore, builder, addedArgs>>

\* the descriptors the controller is driven with: one per label
ControlledAgents ==
    {<<[new("co.example.test") EXCEPT !.run_at_load = b1, !.keep_alive = b1],
       [new("test") EXCEPT !.run_at_load = b2]>> : b1, b2 \in BOOLEAN}

InitCtl ==
    /\ homeVar \in {NoHome, Home}
    /\ uid \in {0, 501}
    /\ dirExists = TRUE
    /\ agents \in ControlledAgents
    /\ \E written \in SUBSET Handles :
           fs = [p \in {path(agents[h]) : h \in written} |->
                    Serialize(agents[CHOOSE h \in written : path(agents[h]) = p])]
    /\ Quiet

NextCtl ==
    \/ \E h \in Handles : Bootstrap(h)
    \/ \E h \in Handles : BootOut(h)
    \/ \E h \in Handles : IsRunning(h)

SpecCtl == InitCtl /\ [][NextCtl]_vars

\* ------------------------------------------------ claims, the controller

\* C3: bootstrap and boot_out return a CommandFailed error whenever the
\* command could not be spawned or exited with a non-zero status, and return
\* success only when it was spawned and exited with status zero.
C3_NonZeroExitIsCommandError ==
    (result.op \in {"bootstrap", "boot_out"} /\ result.status # "panic") =>
        /\ (result.status = "ok") <=>
               (result.output.spawned /\ result.output.code = 0)
        /\ (result.status = "err") => (result.err = "CommandFailed")

\* C4: when the print command has run, is_running returns true if and only
\* if some line of its output holds the text "state = running".
C4_RunningIffMarker ==
    (result.op = "is_running" /\ result.status = "ok") =>
        (result.val <=>
            \E i \in 1..Len(result.output.lines) :
                result.output.lines[i] \in LinesWithMarker)

\* is_running has answered true on a text whose marker is inside its
\* second line
C4_Witness ==
    /\ result.op = "is_running"
    /\ result.status = "ok"
    /\ result.val = TRUE
    /\ result.output.lines = <<"asid = 100003", "job state = running">>

\* <home>/Library/LaunchAgents/<label>.plist
ExpectedPath(label) ==
    homeVar.value \o "/Library/LaunchAgents/" \o label \o ".plist"

\* C5: bootstrap runs "launchctl bootstrap gui/<uid> '<path>'", boot_out runs
\* "launchctl bootout gui/<uid> '<path>'", is_running runs "launchctl print
\* gui/<uid>/<label>", with the effective uid and the path in single quotes;
\* an empty command formats to the empty string.
C5_CommandFormat ==
    /\ (result.op = "bootstrap" /\ result.status # "panic") =>
           result.cmd = "launchctl bootstrap gui/" \o ToString(uid) \o " '"
                        \o ExpectedPath(result.label) \o "'"
    /\ (result.op = "boot_out" /\ result.status # "panic") =>
           result.cmd = "launchctl bootout gui/" \o ToString(uid) \o " '"
                        \o ExpectedPath(result.label) \o "'"
    /\ (result.op = "is_running") =>
           result.cmd = "launchctl print gui/" \o ToString(uid) \o "/"
                        \o result.label
    /\ \A h \in Handles : format_command(agents[h], "") = ""

\* boot_out has run the one command the spec's example names, for uid 501
C5_Witness ==
    /\ result.op = "boot_out"
    /\ result.status = "ok"
    /\ result.cmd =
           "launchctl bootout gui/501 '/Users/x/Library/LaunchAgents/test.plist'"

\* C9: a successful bootstrap of an Unregistered job leaves it Running if
\* the descriptor's run_at_load is set and Stopped otherwise; a successful
\* boot_out of a registered job leaves it Unregistered; is_running changes
\* neither the job table, nor the descriptor, nor the descriptor files.
C9_JobStateModel ==
    [][\A h \in Handles :
          /\ (Bootstrap(h) /\ result'.status = "ok"
                           /\ jobs[agents[h].label] = "Unregistered") =>
                 jobs'[agents[h].label] =
                     (IF agents[h].run_at_load THEN "Running" ELSE "Stopped")
          /\ (BootOut(h) /\ result'.status = "ok"
                         /\ jobs[agents[h].label] # "Unregistered") =>
                 jobs'[agents[h].label] = "Unregistered"
          /\ IsRunning(h) => UNCHANGED <<jobs, agents, fs>>]_vars

\* ------------------------------------------------------------- builder

\* #[builder(setter(each = "arg"))]: the vector is started when needed and
\* the argument pushed at its end
push_arg(field, a) == IF field = None THEN Some(<<a>>) ELSE Some(Append(field[1], a))

build_label_defaulted(b) ==
    [ok |-> TRUE,
     val |-> [label |-> unwrap_or(b.label, ""),
              program_arguments |-> unwrap_or(b.program_arguments, <<>>),
              standard_out_path |-> unwrap_or(b.standard_out_path, DEV_NULL),
              standard_error_path |-> unwrap_or(b.standard_error_path, DEV_NULL),
              keep_alive |-> unwrap_or(b.keep_alive, FALSE),
              run_at_load |-> unwrap_or(b.run_at_load, FALSE),
              process_type |-> unwrap_or(b.process_type, ProcessType_default)]]

\* LaunchAgentBuilder::build, as #[derive(Builder)] generates it from the
\* field attributes: label has no default, every other field has one
build(b) ==
    IF b.label = None THEN [ok |-> FALSE, err |-> "UninitializedField(label)"]
    ELSE [ok |-> TRUE,
          val |-> [label |-> b.label[1],
                   program_arguments |-> unwrap_or(b.program_arguments, <<>>),
                   standard_out_path |-> unwrap_or(b.standard_out_path, DEV_NULL),
                   standard_error_path |-> unwrap_or(b.standard_error_path, DEV_NULL),
                   keep_alive |-> unwrap_or(b.keep_alive, FALSE),
                   run_at_load |-> unwrap_or(b.run_at_load, FALSE),
                   process_type |-> unwrap_or(b.process_type, ProcessType_default)]]

\* a setter of the builder has returned
SetterReturned(field) == [op |-> "setter", label |-> field, status |-> "ok"]

BuilderFrame ==
    UNCHANGED <<homeVar, uid, dirExists, agents, fs, pc, offset, finished,
                lastStore, jobs>>

\* LaunchAgentBuilder::label
BuilderLabel(l) ==
    /\ builder' = [builder EXCEPT !.label = Some(l)]
    /\ result' = SetterReturned("label")
    /\ UNCHANGED addedArgs
    /\ BuilderFrame

\* LaunchAgentBuilder::arg
BuilderArg(a) ==
    /\ Len(addedArgs) < MaxArgs
    /\ builder' = [builder EXCEPT
                     !.program_arguments = push_arg(builder.program_arguments, a)]
    /\ addedArgs' = Append(addedArgs, a)
    /\ result' = SetterReturned("program_arguments")
    /\ BuilderFrame

\* LaunchAgentBuilder::standard_out_path
BuilderStandardOutPath(p) ==
    /\ builder' = [builder EXCEPT !.standard_out_path = Some(p)]
    /\ result' = SetterReturned("standard_out_path")
    /\ UNCHANGED addedArgs
    /\ BuilderFrame

\* LaunchAgentBuilder::standard_error_path
BuilderStandardErrorPath(p) ==
    /\ builder' = [builder EXCEPT !.standard_error_path = Some(p)]
    /\ result' = SetterReturned("standard_error_path")
    /\ UNCHANGED addedArgs
    /\ BuilderFrame

\* LaunchAgentBuilder::keep_alive
BuilderKeepAlive(b) ==
    /\ builder' = [builder EXCEPT !.keep_alive = Some(b)]
    /\ result' = SetterReturned("keep_alive")
    /\ UNCHANGED addedArgs
    /\ BuilderFrame

\* LaunchAgentBuilder::run_at_load
BuilderRunAtLoad(b) ==
    /\ builder' = [builder EXCEPT !.run_at_load = Some(b)]
    /\ result' = SetterReturned("run_at_load")
    /\ UNCHANGED addedArgs
    /\ BuilderFrame

\* LaunchAgentBuilder::process_type
BuilderProcessType(t) ==
    /\ builder' = [builder EXCEPT !.process_type = Some(t)]
    /\ result' = SetterReturned("process_type")
    /\ UNCHANGED addedArgs
    /\ BuilderFrame

\* LaunchAgentBuilder::build
Build ==
    /\ result' = (LET r == build(builder)
                  IN IF r.ok THEN Ok("build", r.val.label, r.val)
                     ELSE Err("build", "", r.err))
    /\ UNCHANGED <<builder, addedArgs>>
    /\ BuilderFrame

InitBuilder ==
    /\ homeVar = Home
    /\ uid = 501
    /\ dirExists = TRUE
    /\ agents = <<new("co.example.test"), new("test")>>
    /\ fs = NoFiles
    /\ Quiet

NextBuilder ==
    \/ \E l \in Labels : BuilderLabel(l)
    \/ \E a \in ArgStrings : BuilderArg(a)
    \/ \E p \in PathValues : BuilderStandardOutPath(p)
    \/ \E p \in PathValues : BuilderStandardErrorPath(p)
    \/ \E b \in BOOLEAN : BuilderKeepAlive(b)
    \/ \E b \in BOOLEAN : BuilderRunAtLoad(b)
    \/ \E t \in ProcessType : BuilderProcessType(t)
    \/ Build

SpecBuilder == InitBuilder /\ [][NextBuilder]_vars

\* only the label of the builder has been set
OnlyLabelSet ==
    /\ builder.label # None
    /\ \A f \in FieldNames \ {"label"} : builder[f] = None

\* C8: build fails with the missing-field error for label whenever no label
\* was set, whatever else was; with a label it succeeds, with only a label
\* it yields the descriptor new(label) yields (no arguments, both paths
\* /dev/null, keep_alive and run_at_load false, Standard), and the arguments
\* are the ones added, in the order added.
C8_BuilderRequiresLabel ==
    (result.op = "build") =>
        /\ (builder.label = None) =>
               /\ result.status = "err"
               /\ result.err = "UninitializedField(label)"
        /\ (builder.label # None) =>
               /\ result.status = "ok"
               /\ result.val.label = builder.label[1]
               /\ result.val.program_arguments = addedArgs
               /\ OnlyLabelSet =>
                      /\ result.val = new(builder.label[1])
                      /\ result.val.program_arguments = <<>>
                      /\ result.val.standard_out_path = "/dev/null"
                      /\ result.val.standard_error_path = "/dev/null"
                      /\ ~result.val.keep_alive
                      /\ ~result.val.run_at_load
                      /\ result.val.process_type = "Standard"

\* build has failed on a builder that has everything but a label
C8_Witness ==
    /\ result.op = "build"
    /\ result.status = "err"
    /\ builder.label = None
    /\ \A f \in FieldNames \ {"label"} : builder[f] # None
    /\ addedArgs = <<"/bin/sleep", "1">>

\* ------------------------------------ write(), step by step, two threads

RaceFrame == UNCHANGED <<homeVar, uid, dirExists, agents, jobs, builder, addedArgs>>

\* write: path_for and File::create
WriteCreate(h) ==
    LET agent == agents[h] IN
    /\ pc[h] = "idle"
    /\ IF HomePanics
       THEN /\ pc' = [pc EXCEPT ![h] = "panicked"]
            /\ result' = Panicked("write", agent.label)
            /\ UNCHANGED <<fs, offset, finished, lastStore>>
       ELSE IF ~dirExists
       THEN /\ pc' = [pc EXCEPT ![h] = "done"]
            /\ result' = Err("write", agent.label, "WriteError")
            /\ UNCHANGED <<fs, offset, finished, lastStore>>
       ELSE /\ fs' = FileCreate(fs, path(agent))
            /\ offset' = [offset EXCEPT ![h] = 0]
            /\ pc' = [pc EXCEPT ![h] = "writing"]
            /\ UNCHANGED <<result, finished, lastStore>>
    /\ RaceFrame

\* write: to_writer, one event of the plist written to the File
WriteEvent(h) ==
    LET agent == agents[h] IN
    /\ pc[h] = "writing"
    /\ offset[h] < Len(Serialize(agent))
    /\ fs' = [fs EXCEPT ![path(agent)] =
                WriteAt(@, offset[h], Serialize(agent)[offset[h] + 1])]
    /\ offset' = [offset EXCEPT ![h] = @ + 1]
    /\ UNCHANGED <<pc, result, finished, lastStore>>
    /\ RaceFrame

\* write: Ok(()) once everything is written; the File is dropped
WriteReturn(h) ==
    LET agent == agents[h] IN
    /\ pc[h] = "writing"
    /\ offset[h] = Len(Serialize(agent))
    /\ pc' = [pc EXCEPT ![h] = "done"]
    /\ finished' = Append(finished, h)
    /\ result' = Ok("write", agent.label, TRUE)
    /\ lastStore' = [lastStore EXCEPT
                       ![agent.label] = [op |-> "write", agent |-> agent]]
    /\ UNCHANGED <<fs, offset>>
    /\ RaceFrame

\* the descriptors of the two writers: one label, different contents
RaceAgents ==
    {[new("test") EXCEPT !.program_arguments = args, !.run_at_load = b] :
        args \in {<<>>, <<"/bin/sleep", "1">>}, b \in BOOLEAN}

InitRace ==
    /\ homeVar = Home
    /\ uid = 501
    /\ dirExists = TRUE
    /\ agents \in {a \in [Handles -> RaceAgents] : a[1] # a[2]}
    /\ fs = NoFiles
    /\ Quiet

NextRace ==
    \/ \E h \in Handles : WriteCreate(h)
    \/ \E h \in Handles : WriteEvent(h)
    \/ \E h \in Handles : WriteReturn(h)

SpecRace == InitRace /\ [][NextRace]_vars

\* C10: two descriptors with one label resolve to one file, and once two
\* concurrent writes of them have both returned the file holds exactly the
\* serialized form of the writer that returned last.
C10_LastWriterWins ==
    /\ \A h1, h2 \in Handles :
           (agents[h1].label = agents[h2].label) =>
               (path(agents[h1]) = path(agents[h2]))
    /\ (Len(finished) = Cardinality(Handles)) =>
           fs[path(agents[1])] = Serialize(agents[finished[Len(finished)]])

====
